---- MODULE Spec2Model ----
(***************************************************************************)
(* Amawk: an HTTP load generator (src/src/main.rs).                        *)
(*                                                                         *)
(* main converts the parsed configuration into a RequestGroup, runs        *)
(* run_request_group (one run_request_chain future per sample, joined by   *)
(* join_all) and, in "stat" output mode, folds the grouped results with    *)
(* get_stat.  Durations are natural numbers of one time unit.               *)
(***************************************************************************)
EXTENDS Integers, Sequences, FiniteSets, TLC

VARIABLES
    pc,             \* position of main / run_request_group / get_stat
    parsed_config,  \* main: parsed_config (DRequestGroup)
    request_group,  \* main: request_group (RequestGroup)
    requests,       \* run_request_group: the expanded population
    names,          \* run_request_group: names, one per launched chain
    chain,          \* the run_request_chain futures handed to join_all
    status_out,     \* run_request_group: status_out / main: status
    clients,        \* get_stat: the StatisticsClient values collected so far
    stdout,         \* what main printed
    finished        \* history: the launched chains in the order they returned

vars == <<pc, parsed_config, request_group, requests, names, chain, status_out, clients, stdout,
          finished>>

(***************************************************************************)
(* Bounds of the model.                                                    *)
(***************************************************************************)
MaxSteps == 2       \* requests of one RankedRequest
MaxProportion == 1  \* proportion of one RankedRequest
MaxRequests == 2    \* number_of_requests
MaxFetches == 4     \* number_of_requests times the longest chain of a configuration
MaxDuration == 2    \* duration_s
MaxElapsed == 2     \* largest elapsed time of one fetch
MaxChainLen == 3    \* steps of a chain result handed to get_stat directly
MaxMixed == 3       \* chains of a bucket drawn over every outcome kind
MaxBucket == 7      \* chains of a bucket drawn over the plain outcome kinds
MaxWeight == 3      \* proportion of a RankedRequest handed to the expansion directly

(***************************************************************************)
(* Helpers.                                                                *)
(***************************************************************************)
None == <<>>
Some(x) == <<x>>

SeqsUpTo(S, n) == UNION {[1..k -> S] : k \in 0..n}
SeqsFromTo(S, m, n) == UNION {[1..k -> S] : k \in m..n}

RECURSIVE SumSeq(_)
SumSeq(s) == IF s = <<>> THEN 0 ELSE s[1] + SumSeq(Tail(s))

RECURSIVE Flatten(_)
Flatten(ss) == IF ss = <<>> THEN <<>> ELSE ss[1] \o Flatten(Tail(ss))

Repeat(x, n) == [i \in 1..n |-> x]

MapSeq(s, F(_)) == [i \in 1..Len(s) |-> F(s[i])]

RECURSIVE ISqrt(_)
ISqrt(n) == IF n < 2 THEN n
            ELSE LET r == 2 * ISqrt(n \div 4)
                 IN IF (r + 1) * (r + 1) <= n THEN r + 1 ELSE r

(***************************************************************************)
(* enum RequestStatus.  Equality is structural (derive PartialEq, Eq,      *)
(* Hash): tag plus payload.                                                *)
(***************************************************************************)
Sucess(delay, url) == [tag |-> "Sucess", delay |-> delay, url |-> url, cause |-> None]
HttpParseError == [tag |-> "HttpParseError", delay |-> 0, url |-> "", cause |-> None]
InvalidStatusCode == [tag |-> "InvalidStatusCode", delay |-> 0, url |-> "", cause |-> None]
Timeout == [tag |-> "Timeout", delay |-> 0, url |-> "", cause |-> None]
Other(s) == [tag |-> "Other", delay |-> 0, url |-> "", cause |-> s]

IsSucess(st) == st.tag = "Sucess"

(***************************************************************************)
(* Uri: str::parse::<Uri>() and Display for Uri, on the strings the        *)
(* configurations of the model use.  A URI with a scheme and an empty path *)
(* is displayed with the path "/".                                         *)
(***************************************************************************)
ParseUri(s) ==
    CASE s = "http://a"   -> [ok |-> TRUE, uri |-> [scheme |-> "http", authority |-> "a", path |-> ""]]
      [] s = "http://b/x" -> [ok |-> TRUE, uri |-> [scheme |-> "http", authority |-> "b", path |-> "/x"]]
      [] OTHER            -> [ok |-> FALSE, uri |-> [scheme |-> "", authority |-> "", path |-> ""]]

FormatUri(uri) ==
    CASE uri.authority = "a" /\ uri.path = ""   -> "http://a/"
      [] uri.authority = "b" /\ uri.path = "/x" -> "http://b/x"
      [] OTHER                                  -> ""

(***************************************************************************)
(* The configuration: DRequestGroup and its conversion (TryFrom).          *)
(***************************************************************************)
Names == <<"A", "B">>
Urls == <<"http://a", "http://b/x">>

\* The requests a configuration gives its k-th chain: its URL or an invalid one.
DRequests(k) == {[url |-> u, delay_s |-> 1] : u \in {Urls[k], ""}}

DRankedRequests(k) ==
    {[proportion |-> p, name |-> Names[k], requests |-> rs] :
        p \in 0..MaxProportion, rs \in SeqsUpTo(DRequests(k), MaxSteps)}

Longest(rs) ==
    IF rs = <<>> THEN 0
    ELSE CHOOSE n \in {Len(rs[j].requests) : j \in 1..Len(rs)} :
            \A j \in 1..Len(rs) : Len(rs[j].requests) <= n

DRequestGroups ==
    {g \in [requests : {<<>>}
                       \cup {<<a>> : a \in DRankedRequests(1)}
                       \cup (DRankedRequests(1) \X DRankedRequests(2)),
            number_of_requests : 0..MaxRequests,
            duration_s : 0..MaxDuration] :
        g.number_of_requests * Longest(g.requests) <= MaxFetches}

\* Duration::from_secs_f64, on the non-negative whole values the configurations
\* of the model give: delay_s and duration_s are counted in the time unit.
DurationFromSecs(secs) == secs

\* impl TryFrom<&DRequest> for Request
RequestTryFrom(request) ==
    LET parsed == ParseUri(request.url)
    IN [ok |-> parsed.ok,
        val |-> [uri |-> parsed.uri, delay |-> DurationFromSecs(request.delay_s)]]

\* impl TryFrom<&DRankedRequest> for RankedRequest
RankedRequestTryFrom(request) ==
    LET res == MapSeq(request.requests, RequestTryFrom)
    IN [ok |-> \A i \in 1..Len(res) : res[i].ok,
        val |-> [proportion |-> request.proportion,
                 name |-> request.name,
                 requests |-> [i \in 1..Len(res) |-> res[i].val]]]

\* A conversion that keeps going after a request that does not parse.
RequestGroupTryFromLenient(request) ==
    LET res == MapSeq(request.requests, RankedRequestTryFrom)
    IN [ok |-> TRUE,
        val |-> [requests |-> [i \in 1..Len(res) |-> res[i].val],
                 number_of_requests |-> request.number_of_requests,
                 duration |-> DurationFromSecs(request.duration_s)]]

\* impl TryFrom<DRequestGroup> for RequestGroup
RequestGroupTryFrom(request) ==
    LET res == MapSeq(request.requests, RankedRequestTryFrom)
    IN [ok |-> \A i \in 1..Len(res) : res[i].ok,
        val |-> [requests |-> [i \in 1..Len(res) |-> res[i].val],
                 number_of_requests |-> request.number_of_requests,
                 duration |-> DurationFromSecs(request.duration_s)]]

NoGroup == [requests |-> <<>>, number_of_requests |-> 0, duration |-> 0]

(***************************************************************************)
(* get_url: the classification of one fetch.  A fetch result is what       *)
(* client.get(uri).await gives: ok with the time it took, or a             *)
(* hyper::Error seen through is_parse, is_timeout, is_parse_status and     *)
(* into_cause.                                                             *)
(***************************************************************************)
Causes == {None, Some("refused"), Some("reset")}

OkResult(elapsed) ==
    [ok |-> TRUE, elapsed |-> elapsed, is_parse |-> FALSE, is_timeout |-> FALSE,
     is_parse_status |-> FALSE, cause |-> None]
ErrResult(p, t, s, c) ==
    [ok |-> FALSE, elapsed |-> 0, is_parse |-> p, is_timeout |-> t,
     is_parse_status |-> s, cause |-> c]

FetchResults ==
    {OkResult(e) : e \in 1..MaxElapsed}
    \cup {ErrResult(p, t, s, c) : p \in BOOLEAN, t \in BOOLEAN, s \in BOOLEAN, c \in Causes}

\* The results the network gives the fetches of a whole run.
NetResults == {OkResult(1), ErrResult(FALSE, TRUE, FALSE, None)}

\* A classification that asks for a timeout before a parse failure.
GetUrlTimeoutFirst(uri, status) ==
    IF status.ok
    THEN Sucess(status.elapsed, FormatUri(uri))
    ELSE IF status.is_timeout THEN Timeout
    ELSE IF status.is_parse THEN HttpParseError
    ELSE IF status.is_parse_status THEN InvalidStatusCode
    ELSE Other(status.cause)

GetUrl(uri, status) ==
    IF status.ok
    THEN Sucess(status.elapsed, FormatUri(uri))
    ELSE IF status.is_parse THEN HttpParseError
    ELSE IF status.is_timeout THEN Timeout
    ELSE IF status.is_parse_status THEN InvalidStatusCode
    ELSE Other(status.cause)

(***************************************************************************)
(* main, up to the call of run_request_group.                              *)
(***************************************************************************)
\* main: parsed_config.try_into().expect("Failed to Parse")
TryInto ==
    /\ pc = "try_into"
    /\ LET res == RequestGroupTryFrom(parsed_config)
       IN IF res.ok
          THEN /\ request_group' = res.val
               /\ pc' = "run_request_group"
          ELSE /\ request_group' = request_group
               /\ pc' = "panic_parse"
    /\ UNCHANGED <<parsed_config, requests, names, chain, status_out, clients, stdout, finished>>

(***************************************************************************)
(* run_request_group.                                                      *)
(***************************************************************************)
\* A population that holds every (requests, name) pair once, whatever its weight.
PopulationUnweighted(group) ==
    [i \in 1..Len(group.requests) |-> <<group.requests[i].requests, group.requests[i].name>>]

\* The expanded population: each (requests, name) pair, proportion times.
Population(group) ==
    Flatten([i \in 1..Len(group.requests) |->
                Repeat(<<group.requests[i].requests, group.requests[i].name>>,
                       group.requests[i].proportion)])

\* Lines 128-134: the population and the assertion that it is not empty.
Expand ==
    /\ pc = "run_request_group"
    /\ requests' = Population(request_group)
    /\ pc' = IF Len(requests') = 0 THEN "panic_assert" ELSE "sample"
    /\ UNCHANGED <<parsed_config, request_group, names, chain, status_out, clients, stdout, finished>>

\* rand::random::<f64>() (line 139) is one of the multiples k / RandomSteps of
\* the generator's step in [0, 1), 0 <= k < RandomSteps.  The step of the
\* generator (2^-53) times the duration is finer than half a time unit of
\* Duration (a nanosecond); the model keeps that for its longest duration.
RandomSteps == 2 * MaxDuration + 3

\* Duration::from_secs_f64(x) for x = num / den time units.  The standard
\* library cuts x to whole time units up to Rust 1.62 and rounds it to the
\* nearest one, ties to even, from Rust 1.63 on; the repository pins neither.
FromSecsF64Cut(num, den) == num \div den

FromSecsF64Nearest(num, den) ==
    LET q == num \div den
        r == num % den
    IN IF 2 * r < den THEN q
       ELSE IF 2 * r > den THEN q + 1
       ELSE IF q % 2 = 0 THEN q ELSE q + 1

\* Duration::from_secs_f64(rand::random::<f64>() * duration.as_secs_f64()),
\* line 139: every value the draw can take.
StartDelays(duration) ==
    UNION {{FromSecsF64Cut(k * duration, RandomSteps),
            FromSecsF64Nearest(k * duration, RandomSteps)} : k \in 0..(RandomSteps - 1)}

\* get_url: status, the result of client.get(uri).await (line 172), before the
\* fetch has resolved.
NoFetch == ErrResult(FALSE, FALSE, FALSE, None)

NoStatus == [tag |-> "none", delay |-> 0, url |-> "", cause |-> None]

\* The future run_request_chain(starting_delay, reqs) after its first poll:
\* it is suspended in sleep(starting_delay); sleep is the time it sleeps, 0 once
\* the sleep is over.
NewChain(starting_delay, reqs) ==
    [phase |-> "start_delay",
     sleep |-> starting_delay,
     requests |-> reqs,
     steps |-> [k \in 1..Len(reqs) |->
                  [phase |-> "idle", fetch |-> NoFetch, status |-> NoStatus]]]

\* A name taken from the entry after the sampled one.
SampledNameNext(index) == requests[((index + 1) % Len(requests)) + 1][2]

\* requests[index].1 and requests[index].0 of lines 145-146; index counts from 0.
SampledName(index) == requests[index + 1][2]
SampledSteps(index) == requests[index + 1][1]

\* Lines 135-148: the samples are drawn, one name is pushed and one chain is
\* created per sample, and join_all polls every chain once.
Launch ==
    /\ pc = "sample"
    /\ \E times \in [1..request_group.number_of_requests ->
                        StartDelays(request_group.duration) \X (0..(Len(requests) - 1))] :
          /\ names' = [i \in 1..Len(times) |-> SampledName(times[i][2])]
          /\ chain' = [i \in 1..Len(times) |->
                          NewChain(times[i][1], SampledSteps(times[i][2]))]
    /\ pc' = "join_all"
    /\ UNCHANGED <<parsed_config, request_group, requests, status_out, clients, stdout, finished>>

\* A chain that issues the fetch of its first step only.
StartedStepsFirstOnly(c) ==
    [k \in 1..Len(c.steps) |-> IF k = 1 THEN [c.steps[k] EXCEPT !.phase = "fetching"]
                                       ELSE c.steps[k]]

\* The steps of a chain once sleep(starting_delay) is over (line 160):
\* join_all polls every run_request, each of which issues its fetch.
StartedSteps(c) == [k \in 1..Len(c.steps) |-> [c.steps[k] EXCEPT !.phase = "fetching"]]

ChainPhase(steps) ==
    IF \A k \in 1..Len(steps) : steps[k].phase = "done" THEN "done" ELSE "running"

\* Chains awaited one after the other: a chain wakes only once every chain
\* launched before it has returned.
StartDelayElapsedSerial(i) ==
    /\ pc = "join_all"
    /\ chain[i].phase = "start_delay"
    /\ \A j \in 1..(i - 1) : chain[j].phase = "done"
    /\ LET steps == [k \in 1..Len(chain[i].steps) |->
                        [chain[i].steps[k] EXCEPT !.phase = "fetching"]]
           phase == IF steps = <<>> THEN "done" ELSE "running"
       IN /\ chain' = [chain EXCEPT ![i].steps = steps, ![i].phase = phase, ![i].sleep = 0]
          /\ finished' = IF phase = "done" THEN Append(finished, i) ELSE finished
    /\ UNCHANGED <<pc, parsed_config, request_group, requests, names, status_out, clients, stdout>>

\* run_request_chain: sleep(starting_delay) is over.
StartDelayElapsed(i) ==
    /\ pc = "join_all"
    /\ chain[i].phase = "start_delay"
    /\ LET steps == StartedSteps(chain[i])
       IN /\ chain' = [chain EXCEPT ![i].steps = steps, ![i].phase = ChainPhase(steps),
                                    ![i].sleep = 0]
          /\ finished' = IF ChainPhase(steps) = "done" THEN Append(finished, i) ELSE finished
    /\ UNCHANGED <<pc, parsed_config, request_group, requests, names, status_out, clients, stdout>>

\* run_request: client.get(uri) resolves with one of the results, get_url
\* classifies it and the step goes on to sleep(request.delay).
Resolve(i, k, results) ==
    /\ pc = "join_all"
    /\ chain[i].steps[k].phase = "fetching"
    /\ \E status \in results :
          chain' = [chain EXCEPT ![i].steps[k] =
                       [phase |-> "post_delay",
                        fetch |-> status,
                        status |-> GetUrl(chain[i].requests[k].uri, status)]]
    /\ UNCHANGED <<pc, parsed_config, request_group, requests, names, status_out, clients, stdout, finished>>

\* A fetch of a whole run resolves.
FetchResolves(i, k) == Resolve(i, k, NetResults)

\* A fetch resolves with any result.
FetchResolvesAny(i, k) == Resolve(i, k, FetchResults)

\* run_request: sleep(request.delay) is over and the step returns its status;
\* the chain returns once every step has.
PostDelayElapsed(i, k) ==
    /\ pc = "join_all"
    /\ chain[i].steps[k].phase = "post_delay"
    /\ LET steps == [chain[i].steps EXCEPT ![k].phase = "done"]
       IN /\ chain' = [chain EXCEPT ![i].steps = steps, ![i].phase = ChainPhase(steps)]
          /\ finished' = IF ChainPhase(steps) = "done" THEN Append(finished, i) ELSE finished
    /\ UNCHANGED <<pc, parsed_config, request_group, requests, names, status_out, clients, stdout>>

\* A chain that stops at its first failing step: its result ends there.
TruncatedResult(c) ==
    LET all == [k \in 1..Len(c.steps) |-> c.steps[k].status]
        failing == {k \in 1..Len(all) : ~IsSucess(all[k])}
    IN IF failing = {} THEN all
       ELSE SubSeq(all, 1, CHOOSE k \in failing : \A j \in failing : k <= j)

\* The Vec<RequestStatus> a finished chain returns.
ChainResult(c) == [k \in 1..Len(c.steps) |-> c.steps[k].status]

RECURSIVE GroupedOverwrite(_, _, _)
\* A grouping that starts the bucket of a name anew with every result.
GroupedOverwrite(out, ns, delay_times) ==
    IF ns = <<>> THEN out
    ELSE LET name == ns[1]
             rest == [n \in DOMAIN out \ {name} |-> out[n]]
         IN GroupedOverwrite(rest @@ (name :> <<delay_times[1]>>),
                             Tail(ns), Tail(delay_times))

RECURSIVE Grouped(_, _, _)
\* Lines 149-155: the results are pushed into the bucket of their name, in order.
Grouped(out, ns, delay_times) ==
    IF ns = <<>> THEN out
    ELSE LET name == ns[1]
             bucket == IF name \in DOMAIN out THEN out[name] ELSE <<>>
             rest == [n \in DOMAIN out \ {name} |-> out[n]]
         IN Grouped(rest @@ (name :> Append(bucket, delay_times[1])),
                    Tail(ns), Tail(delay_times))

\* A join that returns as soon as one chain has returned.
JoinAnyReady == \E i \in 1..Len(chain) : chain[i].phase = "done"

\* join_all(..).await (line 148) is ready once every chain has returned.
JoinAllReady == \A i \in 1..Len(chain) : chain[i].phase = "done"

\* A grouping that starts with an empty bucket for every configured name.
CollectPrefilled ==
    /\ pc = "join_all"
    /\ JoinAllReady
    /\ status_out' = Grouped([n \in {request_group.requests[j].name :
                                        j \in 1..Len(request_group.requests)} |-> <<>>],
                             names, [i \in 1..Len(chain) |-> ChainResult(chain[i])])
    /\ pc' = "returned"
    /\ UNCHANGED <<parsed_config, request_group, requests, names, chain, clients, stdout, finished>>

\* Lines 148-156: join_all returns once every chain has, and the results are grouped.
Collect ==
    /\ pc = "join_all"
    /\ JoinAllReady
    /\ status_out' = Grouped(<<>>, names, [i \in 1..Len(chain) |-> ChainResult(chain[i])])
    /\ pc' = "returned"
    /\ UNCHANGED <<parsed_config, request_group, requests, names, chain, clients, stdout, finished>>

(***************************************************************************)
(* main after run_request_group: the output mode.                          *)
(***************************************************************************)
\* "json": serde_json::to_string(&status) is printed.
OutputJson ==
    /\ pc = "returned"
    /\ stdout' = [format |-> "json", body |-> status_out]
    /\ pc' = "done"
    /\ UNCHANGED <<parsed_config, request_group, requests, names, chain, status_out, clients, finished>>

\* "stat": get_stat(&status) is called.
OutputStat ==
    /\ pc = "returned"
    /\ pc' = "get_stat"
    /\ UNCHANGED <<parsed_config, request_group, requests, names, chain, status_out, clients, stdout, finished>>

(***************************************************************************)
(* get_stat.                                                               *)
(***************************************************************************)
RECURSIVE ChainStatusNoSum(_, _)
\* A reduction that keeps the elapsed time of the last step instead of adding.
ChainStatusNoSum(s, duration) ==
    IF s = <<>> THEN Sucess(duration, "")
    ELSE CASE s[1].tag = "Sucess"            -> ChainStatusNoSum(Tail(s), s[1].delay)
           [] s[1].tag = "HttpParseError"    -> HttpParseError
           [] s[1].tag = "Timeout"           -> Timeout
           [] s[1].tag = "InvalidStatusCode" -> InvalidStatusCode
           [] OTHER                          -> Other(s[1].cause)

RECURSIVE ChainStatusFrom(_, _)
ChainStatusFrom(s, duration) ==
    IF s = <<>> THEN Sucess(duration, "")
    ELSE CASE s[1].tag = "Sucess"            -> ChainStatusFrom(Tail(s), duration + s[1].delay)
           [] s[1].tag = "HttpParseError"    -> HttpParseError
           [] s[1].tag = "Timeout"           -> Timeout
           [] s[1].tag = "InvalidStatusCode" -> InvalidStatusCode
           [] OTHER                          -> Other(s[1].cause)

\* A reduction to the last failing step instead of the first.
GetChainStatusLast(s) ==
    LET failing == {k \in 1..Len(s) : s[k].tag # "Sucess"}
    IN IF failing = {} THEN ChainStatusFrom(s, 0)
       ELSE s[CHOOSE k \in failing : \A j \in failing : j <= k]

\* The closure get_chain_status.
GetChainStatus(s) == ChainStatusFrom(s, 0)

Reduced(bucket) == MapSeq(bucket, GetChainStatus)

\* The elapsed times of the chains reduced to Sucess.
SucessDelays(bucket) ==
    LET ok == SelectSeq(Reduced(bucket), IsSucess)
    IN [i \in 1..Len(ok) |-> ok[i].delay]

NumSucess(bucket) == Len(SucessDelays(bucket))

\* errors: the reduced outcomes that are not Sucess.
Errors(bucket) == SelectSeq(Reduced(bucket), LAMBDA st : ~IsSucess(st))

\* error_hashmap: the first occurrence of a kind inserts 0, each later one adds 1.
ErrorHashmap(errors) ==
    [e \in {errors[i] : i \in 1..Len(errors)} |->
        Cardinality({i \in 1..Len(errors) : errors[i] = e}) - 1]

\* The BTreeMap<usize, RequestStatus> values error_hashmap.iter() can collect
\* to: under each count, the kind of that count that the iteration gives last.
ErrorTrees(hashmap) ==
    LET keys == {hashmap[e] : e \in DOMAIN hashmap}
    IN {tree \in [keys -> DOMAIN hashmap] : \A v \in keys : hashmap[tree[v]] = v}

RECURSIVE TreeValues(_, _)
\* error_tree.iter(): the values by ascending key.
TreeValues(tree, keys) ==
    IF keys = {} THEN <<>>
    ELSE LET least == CHOOSE v \in keys : \A w \in keys : v <= w
         IN <<tree[least]>> \o TreeValues(tree, keys \ {least})

CommonErrors(tree) == TreeValues(tree, DOMAIN tree)

\* A mean taken over every chain of the bucket, failed ones included.
MeanOverTotal(bucket) == SumSeq(SucessDelays(bucket)) \div Len(bucket)

\* mean: the sum of the elapsed times divided by num_sucess (Duration / u32).
Mean(bucket) == SumSeq(SucessDelays(bucket)) \div NumSucess(bucket)

\* standard_deviation: the square root of the mean squared distance to mean,
\* as a Duration (whole time units).
StandardDeviation(bucket) ==
    LET d == SucessDelays(bucket)
        mean == Mean(bucket)
    IN ISqrt(SumSeq([i \in 1..Len(d) |-> (d[i] - mean) * (d[i] - mean)]) \div Len(d))

\* A failed count that counts the distinct failure kinds.
NumberOfErrorKinds(bucket) ==
    Cardinality({Reduced(bucket)[j] : j \in {j \in 1..Len(bucket) : ~IsSucess(Reduced(bucket)[j])}})

NumberOfFailedRequests(bucket) == Len(Errors(bucket))

StatisticsClient(name, bucket, tree) ==
    [name |-> name,
     total |-> Len(bucket),
     average_total_load_time |-> Mean(bucket),
     standard_deviation |-> StandardDeviation(bucket),
     number_of_failed_requests |-> NumberOfFailedRequests(bucket),
     common_errors |-> CommonErrors(tree)]

ClientNames == {clients[i].name : i \in 1..Len(clients)}

\* One call of the closure of data.iter().map(..): the statistics of one
\* group.  Dividing the Duration by num_sucess = 0 panics.
GetStatClient(name) ==
    /\ pc = "get_stat"
    /\ name \in DOMAIN status_out
    /\ name \notin ClientNames
    /\ IF NumSucess(status_out[name]) = 0
       THEN /\ pc' = "panic_div"
            /\ clients' = clients
       ELSE /\ \E tree \in ErrorTrees(ErrorHashmap(Errors(status_out[name]))) :
                  clients' = Append(clients, StatisticsClient(name, status_out[name], tree))
            /\ pc' = pc
    /\ UNCHANGED <<parsed_config, request_group, requests, names, chain, status_out, stdout, finished>>

Take(s, n) == SubSeq(s, 1, IF Len(s) < n THEN Len(s) ELSE n)

\* A row that shows every common error.
FmtRowAll(c) ==
    [name |-> c.name,
     total |-> c.total,
     average_total_load_time |-> c.average_total_load_time,
     standard_deviation |-> c.standard_deviation,
     number_of_failed_requests |-> c.number_of_failed_requests,
     common_errors |-> c.common_errors]

\* Statistics::fmt: one row of the table.
FmtRow(c) ==
    [name |-> c.name,
     total |-> c.total,
     average_total_load_time |-> c.average_total_load_time,
     standard_deviation |-> c.standard_deviation,
     number_of_failed_requests |-> c.number_of_failed_requests,
     common_errors |-> Take(c.common_errors, 2)]

\* get_stat returns and main prints the table.
PrintStat ==
    /\ pc = "get_stat"
    /\ ClientNames = DOMAIN status_out
    /\ stdout' = [format |-> "stat", body |-> MapSeq(clients, FmtRow)]
    /\ pc' = "done"
    /\ UNCHANGED <<parsed_config, request_group, requests, names, chain, status_out, clients, finished>>

(***************************************************************************)
(* The program: main from the parsed configuration on.                     *)
(***************************************************************************)
NoOutput == [format |-> "none", body |-> <<>>]

Init ==
    /\ pc = "try_into"
    /\ parsed_config \in DRequestGroups
    /\ request_group = NoGroup
    /\ requests = <<>>
    /\ names = <<>>
    /\ chain = <<>>
    /\ status_out = <<>>
    /\ clients = <<>>
    /\ stdout = NoOutput
    /\ finished = <<>>

Next ==
    \/ TryInto
    \/ Expand
    \/ Launch
    \/ \E i \in 1..Len(chain) : StartDelayElapsed(i)
    \/ \E i \in 1..Len(chain) : \E k \in 1..Len(chain[i].steps) : FetchResolves(i, k)
    \/ \E i \in 1..Len(chain) : \E k \in 1..Len(chain[i].steps) : PostDelayElapsed(i, k)
    \/ Collect
    \/ OutputJson
    \/ OutputStat
    \/ \E name \in DOMAIN status_out : GetStatClient(name)
    \/ PrintStat

Spec == Init /\ [][Next]_vars

(***************************************************************************)
(* get_stat on its own: the grouped results are drawn from bounded sets.   *)
(***************************************************************************)
StepOutcomes ==
    {Sucess(e, "http://a/") : e \in 1..MaxElapsed}
    \cup {HttpParseError, Timeout, InvalidStatusCode}
    \cup {Other(c) : c \in Causes}

PlainOutcomes == {Sucess(1, "http://a/"), Timeout, HttpParseError, InvalidStatusCode}

SingleStep(outcomes) == {<<o>> : o \in outcomes}

Buckets ==
    \* one chain of several steps, alone or before a chain that succeeded
    {<<c>> : c \in SeqsUpTo(StepOutcomes, MaxChainLen)}
    \cup {<<c, <<Sucess(1, "http://a/")>>>> : c \in SeqsUpTo(StepOutcomes, MaxChainLen)}
    \* a few one-step chains of any outcome
    \cup SeqsFromTo(SingleStep(StepOutcomes), 1, MaxMixed)
    \* many one-step chains
    \cup SeqsFromTo(SingleStep(PlainOutcomes), 1, MaxBucket)

StatInputs ==
    {<<>>}
    \cup {("A" :> b) : b \in Buckets}
    \cup [{"A", "B"} -> SeqsFromTo(SingleStep({Sucess(1, "http://a/"), Timeout}), 1, MaxMixed)]

InitStat ==
    /\ pc = "get_stat"
    /\ status_out \in StatInputs
    /\ parsed_config = [requests |-> <<>>, number_of_requests |-> 0, duration_s |-> 0]
    /\ request_group = NoGroup
    /\ requests = <<>>
    /\ names = <<>>
    /\ chain = <<>>
    /\ clients = <<>>
    /\ stdout = NoOutput
    /\ finished = <<>>

NextStat ==
    \/ \E name \in DOMAIN status_out : GetStatClient(name)
    \/ PrintStat

SpecStat == InitStat /\ [][NextStat]_vars

(***************************************************************************)
(* Definitions the properties share.                                       *)
(***************************************************************************)
AfterCollect == pc \in {"returned", "get_stat", "panic_div", "done"}

\* The RankedRequest entries of the configuration that carry a name.
RankedNamed(name) ==
    {request_group.requests[j] : j \in {j \in 1..Len(request_group.requests) :
                                            request_group.requests[j].name = name}}

\* The result of the i-th launched chain, where the grouping put it.
ResultOf(i) == status_out[names[i]][Cardinality({j \in 1..i : names[j] = names[i]})]

AllSucess(c) == \A k \in 1..Len(c) : IsSucess(c[k])

\* The position of the first step of c that is not Sucess.
FirstFailure(c) ==
    CHOOSE k \in 1..Len(c) : ~IsSucess(c[k]) /\ \A j \in 1..(k - 1) : IsSucess(c[j])

\* The chains of a bucket that have a failing step, by their first failure.
FirstFailures(bucket) ==
    {bucket[j][FirstFailure(bucket[j])] : j \in {j \in 1..Len(bucket) : ~AllSucess(bucket[j])}}

\* How many chains of the bucket have the kind as their first failure.
Occurrences(bucket, kind) ==
    Cardinality({j \in 1..Len(bucket) :
                    ~AllSucess(bucket[j]) /\ bucket[j][FirstFailure(bucket[j])] = kind})

Reverse(c) == [k \in 1..Len(c) |-> c[Len(c) + 1 - k]]

SumOfDelays(c) == SumSeq([k \in 1..Len(c) |-> c[k].delay])

Client(i) == clients[i]
BucketOf(i) == status_out[clients[i].name]

(***************************************************************************)
(* C1.  Within one chain the steps run strictly in order: the fetch of     *)
(* step k+1 is not issued before step k has resolved its fetch and has     *)
(* slept its post-fetch delay, so no two steps of a chain are in flight    *)
(* together.  The code issues all the fetches of a chain at once           *)
(* (join_all), so this does not hold of it.                                *)
(***************************************************************************)
C1_StepsStrictlyInOrder ==
    \A i \in 1..Len(chain) : \A k \in 1..(Len(chain[i].steps) - 1) :
        chain[i].steps[k + 1].phase # "idle" => chain[i].steps[k].phase = "done"

(***************************************************************************)
(* C2.  A group without a successful chain is no error: get_stat does not  *)
(* abort on it, and the statistics it returns have an entry for the group  *)
(* with failedCount = total and, when all its chains timed out,            *)
(* commonErrors = [Timeout].  The code divides by the number of successes  *)
(* and panics, so this does not hold of it.                                *)
(***************************************************************************)
ZeroSucessGroups ==
    {name \in DOMAIN status_out :
        \A j \in 1..Len(status_out[name]) : ~AllSucess(status_out[name][j])}

C2_ZeroSuccessGroupReported ==
    /\ pc # "panic_div"
    /\ (pc = "done" /\ stdout.format = "stat") =>
          \A name \in ZeroSucessGroups : \E i \in 1..Len(clients) :
              /\ clients[i].name = name
              /\ clients[i].number_of_failed_requests = clients[i].total
              /\ (FirstFailures(status_out[name]) = {Timeout}
                    => clients[i].common_errors = <<Timeout>>)

(***************************************************************************)
(* C3.  common_errors is ordered by descending frequency: of two kinds in  *)
(* it that occur a different number of times in the group, the more        *)
(* frequent one comes first.  The code lists them by ascending count, so   *)
(* this does not hold of it.                                               *)
(***************************************************************************)
C3_CommonErrorsDescending ==
    \A i \in 1..Len(clients) :
        LET ce == clients[i].common_errors
        IN \A a \in 1..Len(ce) : \A b \in (a + 1)..Len(ce) :
              Occurrences(BucketOf(i), ce[a]) # Occurrences(BucketOf(i), ce[b])
                  => Occurrences(BucketOf(i), ce[a]) > Occurrences(BucketOf(i), ce[b])

(***************************************************************************)
(* C4.  When a group has at most two distinct failure kinds, common_errors *)
(* holds each of them exactly once, also when both occur equally often.    *)
(* The code keys the kinds by their count, so one of two kinds of equal    *)
(* count is lost and this does not hold of it.                             *)
(***************************************************************************)
C4_NoKindDropped ==
    \A i \in 1..Len(clients) :
        LET ce == clients[i].common_errors
            kinds == FirstFailures(BucketOf(i))
        IN Cardinality(kinds) <= 2 =>
              \A kind \in kinds : Cardinality({a \in 1..Len(ce) : ce[a] = kind}) = 1

(***************************************************************************)
(* C5, as stated.  The common_errors of a StatisticsClient returned by     *)
(* get_stat never holds more than 2 kinds.  get_stat does not truncate, so *)
(* this does not hold of it.                                               *)
(***************************************************************************)
C5_CommonErrorsAtMostTwo ==
    \A i \in 1..Len(clients) : Len(clients[i].common_errors) <= 2

(***************************************************************************)
(* C5, amended.  The table that Statistics::fmt prints shows at most 2     *)
(* kinds for a group, the first two of its common_errors; common_errors    *)
(* itself holds one kind for each distinct count of the group.             *)
(***************************************************************************)
C5_PrintedAtMostTwo ==
    /\ \A i \in 1..Len(clients) :
          Len(clients[i].common_errors)
              = Cardinality({Occurrences(BucketOf(i), kind) : kind \in FirstFailures(BucketOf(i))})
    /\ (pc = "done" /\ stdout.format = "stat") =>
          /\ Len(stdout.body) = Len(clients)
          /\ \A i \in 1..Len(clients) :
                LET shown == stdout.body[i].common_errors
                    ce == clients[i].common_errors
                IN /\ Len(shown) <= 2
                   /\ Len(shown) <= Len(ce)
                   /\ (Len(ce) >= 2 => Len(shown) = 2)
                   /\ \A a \in 1..Len(shown) : shown[a] = ce[a]

C5_Witness ==
    /\ pc = "done"
    /\ stdout.format = "stat"
    /\ \E i \in 1..Len(clients) :
          /\ Len(clients[i].common_errors) = 3
          /\ Len(stdout.body[i].common_errors) = 2

(***************************************************************************)
(* C6.  Once run_request_group has returned, the sizes of the buckets sum  *)
(* to number_of_requests, and every chain result in a bucket has as many   *)
(* outcomes as the RankedRequest of that name has requests.                *)
(***************************************************************************)
BucketSizes == SumSeq([k \in 1..Len(Names) |->
                          IF Names[k] \in DOMAIN status_out THEN Len(status_out[Names[k]]) ELSE 0])

C6_AllResultsGrouped ==
    AfterCollect =>
        /\ DOMAIN status_out \subseteq {Names[k] : k \in 1..Len(Names)}
        /\ BucketSizes = request_group.number_of_requests
        /\ \A name \in DOMAIN status_out : \A j \in 1..Len(status_out[name]) :
              \A r \in RankedNamed(name) : Len(status_out[name][j]) = Len(r.requests)

C6_Witness ==
    /\ pc = "returned"
    /\ request_group.number_of_requests = 2
    /\ "A" \in DOMAIN status_out /\ Len(status_out["A"]) = 2
    /\ Len(status_out["A"][1]) = 2

(***************************************************************************)
(* C7.  get_chain_status of a chain with a failing step is the first       *)
(* failing outcome in step order, whatever follows it, with its cause text *)
(* when it is Other; the kinds get_stat reports for a group are first      *)
(* failures of its chains.                                                 *)
(***************************************************************************)
C7_FirstFailureReduces ==
    /\ \A name \in DOMAIN status_out : \A j \in 1..Len(status_out[name]) :
          LET c == status_out[name][j]
          IN ~AllSucess(c) => GetChainStatus(c) = c[FirstFailure(c)]
    /\ \A i \in 1..Len(clients) :
          /\ {clients[i].common_errors[a] : a \in 1..Len(clients[i].common_errors)}
                \subseteq FirstFailures(BucketOf(i))
          /\ (FirstFailures(BucketOf(i)) # {} => clients[i].common_errors # <<>>)

C7_Witness ==
    /\ "A" \in DOMAIN status_out
    /\ status_out["A"] = <<<<Sucess(1, "http://a/"), Timeout, HttpParseError>>,
                           <<Sucess(1, "http://a/")>>>>
    /\ Len(clients) = 1
    /\ clients[1].common_errors = <<Timeout>>

(***************************************************************************)
(* C8.  get_chain_status of a chain whose steps all succeeded is Sucess    *)
(* with the sum of the elapsed times of the steps and an empty url, and is *)
(* the same for the steps in reverse order; the mean of a group of one     *)
(* such chain is that sum.                                                 *)
(***************************************************************************)
C8_AllSuccessSums ==
    /\ \A name \in DOMAIN status_out : \A j \in 1..Len(status_out[name]) :
          LET c == status_out[name][j]
          IN AllSucess(c) =>
                /\ GetChainStatus(c) = Sucess(SumOfDelays(c), "")
                /\ GetChainStatus(Reverse(c)) = GetChainStatus(c)
    /\ \A i \in 1..Len(clients) :
          (Len(BucketOf(i)) = 1) => clients[i].average_total_load_time = SumOfDelays(BucketOf(i)[1])

C8_Witness ==
    /\ "A" \in DOMAIN status_out
    /\ status_out["A"] = <<<<Sucess(1, "http://a/"), Sucess(2, "http://a/"), Sucess(2, "http://a/")>>>>
    /\ Len(clients) = 1
    /\ clients[1].average_total_load_time = 5

(***************************************************************************)
(* C9.  For every group get_stat has an entry for, the failed count plus   *)
(* the number of chains whose steps all succeeded is the total, and the    *)
(* total is the number of chain results in the bucket of the group.        *)
(***************************************************************************)
C9_FailedPlusSucessIsTotal ==
    \A i \in 1..Len(clients) :
        /\ clients[i].total = Len(BucketOf(i))
        /\ clients[i].number_of_failed_requests
              + Cardinality({j \in 1..Len(BucketOf(i)) : AllSucess(BucketOf(i)[j])})
           = clients[i].total

C9_Witness ==
    \E i \in 1..Len(clients) :
        /\ clients[i].total = 4
        /\ clients[i].number_of_failed_requests = 3
        /\ Cardinality(FirstFailures(BucketOf(i))) = 2

(***************************************************************************)
(* C10.  A failing step does not abort its chain: when a step of a chain   *)
(* has failed, the fetch of every later step has been issued as well, and  *)
(* the result of the chain has one outcome per step, each at the position  *)
(* of the step that produced it.                                           *)
(***************************************************************************)
StepFailed(st) == st.phase \in {"post_delay", "done"} /\ ~IsSucess(st.status)

C10_FailureDoesNotAbort ==
    /\ \A i \in 1..Len(chain) : \A k \in 1..Len(chain[i].steps) :
          StepFailed(chain[i].steps[k]) =>
              \A j \in (k + 1)..Len(chain[i].steps) : chain[i].steps[j].phase # "idle"
    /\ AfterCollect =>
          \A i \in 1..Len(chain) :
              /\ Len(ResultOf(i)) = Len(chain[i].requests)
              /\ \A k \in 1..Len(chain[i].steps) :
                    /\ ResultOf(i)[k] = chain[i].steps[k].status
                    /\ ResultOf(i)[k] # NoStatus

C10_Witness ==
    /\ pc = "returned"
    /\ Len(chain) = 1
    /\ Len(chain[1].steps) = 2
    /\ status_out[names[1]] = <<<<Timeout, Sucess(1, FormatUri(chain[1].requests[2].uri))>>>>

(***************************************************************************)
(* C11.  run_request_group has one barrier: no chain result is in a bucket *)
(* and the function has not returned while a launched chain still has a    *)
(* step to fetch or a post-fetch delay to sleep.                           *)
(***************************************************************************)
ChainComplete(c) ==
    /\ c.phase = "done"
    /\ \A k \in 1..Len(c.steps) : c.steps[k].phase = "done" /\ c.steps[k].status # NoStatus

C11_SingleBarrier ==
    /\ (status_out # <<>> \/ AfterCollect) =>
          /\ Len(chain) = request_group.number_of_requests
          /\ \A i \in 1..Len(chain) : ChainComplete(chain[i])
    /\ pc = "join_all" => status_out = <<>>

C11_Witness ==
    /\ pc = "returned"
    /\ Len(chain) = 2
    /\ finished = <<2, 1>>
    /\ Len(chain[1].steps) = 2
    /\ "A" \in DOMAIN status_out

(***************************************************************************)
(* C12.  Grouping does not depend on the order in which the chains return: *)
(* whatever that order, the result of every chain is in the bucket named   *)
(* after the RankedRequest whose requests the chain ran, and no bucket has *)
(* a name the configuration lacks.                                         *)
(***************************************************************************)
ConfiguredNames == {request_group.requests[j].name : j \in 1..Len(request_group.requests)}

\* The outcomes are those of the requests rs: as many, and every Sucess has
\* the url of its request.
OutcomesOf(result, rs) ==
    /\ Len(result) = Len(rs)
    /\ \A k \in 1..Len(result) : IsSucess(result[k]) => result[k].url = FormatUri(rs[k].uri)

C12_GroupedByOrigin ==
    AfterCollect =>
        /\ DOMAIN status_out \subseteq ConfiguredNames
        /\ \A i \in 1..Len(chain) :
              /\ names[i] \in DOMAIN status_out
              /\ ResultOf(i) = [k \in 1..Len(chain[i].steps) |-> chain[i].steps[k].status]
              /\ \E r \in RankedNamed(names[i]) :
                    /\ r.proportion > 0
                    /\ r.requests = chain[i].requests
                    /\ OutcomesOf(ResultOf(i), r.requests)

C12_Witness ==
    /\ pc = "returned"
    /\ names = <<"A", "B">>
    /\ finished = <<2, 1>>
    /\ Len(status_out["A"][1]) = 2
    /\ Len(status_out["B"][1]) = 1
    /\ IsSucess(status_out["B"][1][1])

(***************************************************************************)
(* C13.  Chains do not block each other: while run_request_group waits,    *)
(* every sample has its chain launched, and every chain that sleeps its    *)
(* start delay, waits for a fetch or sleeps a post-fetch delay can take    *)
(* its next step whatever the other chains are doing.                      *)
(***************************************************************************)
C13_ChainsDoNotBlock ==
    pc = "join_all" =>
        /\ Len(chain) = request_group.number_of_requests
        /\ \A i \in 1..Len(chain) :
              /\ chain[i].phase = "start_delay" => ENABLED StartDelayElapsed(i)
              /\ \A k \in 1..Len(chain[i].steps) :
                    /\ chain[i].steps[k].phase = "fetching" => ENABLED FetchResolves(i, k)
                    /\ chain[i].steps[k].phase = "post_delay" => ENABLED PostDelayElapsed(i, k)

C13_Witness ==
    /\ pc = "join_all"
    /\ Len(chain) = 2
    /\ chain[1].phase = "start_delay"
    /\ chain[2].phase = "running"
    /\ chain[2].steps[1].phase = "post_delay"

(***************************************************************************)
(* C14.  Configuration errors come before any scheduling: when a URL of    *)
(* the configuration does not parse, or the population is empty (no chain, *)
(* or every proportion 0), the run stops in the conversion or in the       *)
(* assertion, and no sample is drawn, no chain is launched and no fetch is *)
(* issued.                                                                 *)
(***************************************************************************)
HasBadUrl ==
    \E j \in 1..Len(parsed_config.requests) :
        \E k \in 1..Len(parsed_config.requests[j].requests) :
            ~ParseUri(parsed_config.requests[j].requests[k].url).ok

TotalWeight ==
    SumSeq([j \in 1..Len(parsed_config.requests) |-> parsed_config.requests[j].proportion])

NothingScheduled ==
    /\ names = <<>>
    /\ chain = <<>>
    /\ finished = <<>>
    /\ status_out = <<>>
    /\ clients = <<>>
    /\ stdout = NoOutput

C14_ConfigErrorsFirst ==
    /\ HasBadUrl => pc \in {"try_into", "panic_parse"} /\ NothingScheduled
    /\ TotalWeight = 0 =>
          pc \in {"try_into", "run_request_group", "panic_parse", "panic_assert"}
          /\ NothingScheduled
    /\ pc = "panic_parse" => HasBadUrl
    /\ pc = "panic_assert" => TotalWeight = 0

C14_Witness ==
    /\ pc = "panic_parse"
    /\ Len(parsed_config.requests) = 2
    /\ parsed_config.requests[1].proportion = 1
    /\ parsed_config.requests[1].requests = <<[url |-> "http://a", delay_s |-> 1]>>
    /\ parsed_config.requests[2].requests =
          <<[url |-> "http://b/x", delay_s |-> 1], [url |-> "", delay_s |-> 1]>>
    /\ parsed_config.number_of_requests = 2

(***************************************************************************)
(* The expansion on its own: run_request_group is entered with a           *)
(* RequestGroup drawn from bounded sets.                                   *)
(***************************************************************************)
RankedRequests(k) ==
    {[proportion |-> p, name |-> Names[k], requests |-> rs] :
        p \in 0..MaxWeight,
        rs \in SeqsUpTo({RequestTryFrom([url |-> Urls[k], delay_s |-> 1]).val}, MaxSteps)}

RequestGroups ==
    [requests : {<<>>}
                \cup {<<a>> : a \in RankedRequests(1)}
                \cup (RankedRequests(1) \X RankedRequests(2)),
     number_of_requests : 0..MaxRequests,
     duration : {0}]

InitExpand ==
    /\ pc = "run_request_group"
    /\ request_group \in RequestGroups
    /\ parsed_config = [requests |-> <<>>, number_of_requests |-> 0, duration_s |-> 0]
    /\ requests = <<>>
    /\ names = <<>>
    /\ chain = <<>>
    /\ status_out = <<>>
    /\ clients = <<>>
    /\ stdout = NoOutput
    /\ finished = <<>>

NextExpand == Expand

SpecExpand == InitExpand /\ [][NextExpand]_vars

(***************************************************************************)
(* C15.  The population holds the (requests, name) pair of every           *)
(* RankedRequest exactly proportion times, so its size is the sum of the   *)
(* proportions, and every index below its size gives the requests and the  *)
(* name of one configured RankedRequest.                                   *)
(***************************************************************************)
Expanded == pc \in {"sample", "panic_assert"}

C15_PopulationByWeight ==
    Expanded =>
        /\ Len(requests)
              = SumSeq([j \in 1..Len(request_group.requests) |-> request_group.requests[j].proportion])
        /\ \A j \in 1..Len(request_group.requests) :
              LET r == request_group.requests[j]
              IN Cardinality({i \in 1..Len(requests) : requests[i] = <<r.requests, r.name>>})
                    = r.proportion
        /\ \A index \in 0..(Len(requests) - 1) :
              \E j \in 1..Len(request_group.requests) :
                  /\ request_group.requests[j].proportion > 0
                  /\ SampledName(index) = request_group.requests[j].name
                  /\ SampledSteps(index) = request_group.requests[j].requests

C15_Witness ==
    /\ pc = "sample"
    /\ Len(request_group.requests) = 2
    /\ request_group.requests[1].proportion = 2
    /\ request_group.requests[2].proportion = 3
    /\ Len(requests) = 5
    /\ Len(request_group.requests[1].requests) = 2

(***************************************************************************)
(* get_url on its own: one chain of one configured RankedRequest has been  *)
(* launched, and its fetches resolve with any result.                      *)
(***************************************************************************)
InitClassify ==
    /\ pc = "join_all"
    /\ parsed_config \in {g \in DRequestGroups :
                             /\ Len(g.requests) = 1
                             /\ g.requests[1].proportion > 0
                             /\ g.number_of_requests = 1
                             /\ g.duration_s = 0
                             /\ RequestGroupTryFrom(g).ok}
    /\ request_group = RequestGroupTryFrom(parsed_config).val
    /\ requests = Population(request_group)
    /\ names = <<requests[1][2]>>
    /\ chain = <<NewChain(0, requests[1][1])>>
    /\ status_out = <<>>
    /\ clients = <<>>
    /\ stdout = NoOutput
    /\ finished = <<>>

NextClassify ==
    \/ StartDelayElapsed(1)
    \/ \E k \in 1..Len(chain[1].steps) : FetchResolvesAny(1, k)
    \/ \E k \in 1..Len(chain[1].steps) : PostDelayElapsed(1, k)
    \/ Collect

SpecClassify == InitClassify /\ [][NextClassify]_vars

(***************************************************************************)
(* C16.  get_url gives every fetch result exactly one outcome: Sucess for  *)
(* a completed fetch; for a failure HttpParseError when it is a parse      *)
(* failure, else Timeout when it is a timeout, else InvalidStatusCode when *)
(* it is an invalid status, else Other with the cause, if there is one.    *)
(* When several hold, parse goes before timeout before invalid status.     *)
(***************************************************************************)
Classified(uri, r, st) ==
    /\ st.tag \in {"Sucess", "HttpParseError", "Timeout", "InvalidStatusCode", "Other"}
    /\ r.ok => st = Sucess(r.elapsed, FormatUri(uri))
    /\ (~r.ok /\ r.is_parse) => st = HttpParseError
    /\ (~r.ok /\ ~r.is_parse /\ r.is_timeout) => st = Timeout
    /\ (~r.ok /\ ~r.is_parse /\ ~r.is_timeout /\ r.is_parse_status) => st = InvalidStatusCode
    /\ (~r.ok /\ ~r.is_parse /\ ~r.is_timeout /\ ~r.is_parse_status) => st = Other(r.cause)

C16_ClassifiedInOrder ==
    \A i \in 1..Len(chain) : \A k \in 1..Len(chain[i].steps) :
        chain[i].steps[k].phase \in {"post_delay", "done"} =>
            Classified(chain[i].requests[k].uri, chain[i].steps[k].fetch, chain[i].steps[k].status)

C16_Witness ==
    /\ pc = "returned"
    /\ Len(chain[1].steps) = 2
    /\ chain[1].steps[1].fetch = ErrResult(TRUE, TRUE, TRUE, Some("reset"))
    /\ chain[1].steps[2].fetch = ErrResult(FALSE, FALSE, FALSE, Some("refused"))
    /\ status_out["A"] = <<<<HttpParseError, Other(Some("refused"))>>>>

(***************************************************************************)
(* The program when every sleep ends and every fetch resolves: a chain     *)
(* that can take a step takes one, and join_all returns once it is ready.  *)
(***************************************************************************)
ChainStep ==
    \/ \E i \in 1..Len(chain) : StartDelayElapsed(i)
    \/ \E i \in 1..Len(chain) : \E k \in 1..Len(chain[i].steps) : FetchResolves(i, k)
    \/ \E i \in 1..Len(chain) : \E k \in 1..Len(chain[i].steps) : PostDelayElapsed(i, k)

SpecLive == Init /\ [][Next]_vars /\ WF_vars(ChainStep) /\ WF_vars(Collect)

(***************************************************************************)
(* C17.  There is no cancellation: when every fetch resolves and every     *)
(* delay ends, the chains once launched all run to their end and           *)
(* run_request_group returns; it has returned only when every launched     *)
(* chain has finished.                                                     *)
(***************************************************************************)
C17_RunsToCompletion ==
    /\ (pc = "join_all") ~> (pc = "returned")
    /\ [](pc = "returned" => \A i \in 1..Len(chain) : ChainComplete(chain[i]))

C17_Witness ==
    /\ pc = "returned"
    /\ Len(chain) = 2
    /\ Len(chain[1].steps) = 2
    /\ Len(chain[2].steps) = 2
    /\ \A i \in 1..2 : ChainComplete(chain[i])

(***************************************************************************)
(* C18.  Every start delay drawn lies in [0, duration), it is 0 when       *)
(* duration is 0, and no chain issues a fetch before its start delay has   *)
(* elapsed.  A chain still in its start delay holds the delay drawn for    *)
(* it in sleep.                                                            *)
(***************************************************************************)
C18_StartDelayInRange ==
    pc = "join_all" =>
        \A i \in 1..Len(chain) :
            chain[i].phase = "start_delay" =>
                /\ 0 <= chain[i].sleep
                /\ request_group.duration = 0 => chain[i].sleep = 0
                /\ request_group.duration > 0 => chain[i].sleep < request_group.duration
                /\ \A k \in 1..Len(chain[i].steps) : chain[i].steps[k].phase = "idle"

(***************************************************************************)
(* C19.  For a group with exactly one chain reduced to Sucess, whatever    *)
(* the number of its failed chains, get_stat reports as mean the summed    *)
(* elapsed time of that chain and as standard deviation exactly 0.         *)
(***************************************************************************)
SucessChains(bucket) == {j \in 1..Len(bucket) : AllSucess(bucket[j])}

C19_SingleSucessStatistics ==
    \A i \in 1..Len(clients) :
        Cardinality(SucessChains(BucketOf(i))) = 1 =>
            LET j == CHOOSE j \in SucessChains(BucketOf(i)) : TRUE
            IN /\ clients[i].average_total_load_time = SumOfDelays(BucketOf(i)[j])
               /\ clients[i].standard_deviation = 0

C19_Witness ==
    \E i \in 1..Len(clients) :
        /\ Len(BucketOf(i)) = 3
        /\ Cardinality(SucessChains(BucketOf(i))) = 1
        /\ clients[i].number_of_failed_requests = 2
        /\ clients[i].average_total_load_time = 2
        /\ clients[i].standard_deviation = 0

(***************************************************************************)
(* C20.  With number_of_requests = 0 and a population that is not empty,   *)
(* run_request_group launches no chain and issues no fetch, its result has *)
(* no bucket, and get_stat has no entry and no row.  In every run the      *)
(* buckets are those of the names drawn, none of them empty, and the       *)
(* entries and rows of the statistics are of names drawn.                  *)
(***************************************************************************)
DrawnNames == {names[i] : i \in 1..Len(names)}

C20_NothingDrawnNothingReported ==
    /\ (pc = "join_all" \/ AfterCollect) =>
          /\ Len(chain) = request_group.number_of_requests
          /\ request_group.number_of_requests = 0 =>
                chain = <<>> /\ names = <<>> /\ finished = <<>>
    /\ AfterCollect =>
          /\ DOMAIN status_out = DrawnNames
          /\ \A name \in DOMAIN status_out : status_out[name] # <<>>
          /\ \A i \in 1..Len(clients) : clients[i].name \in DrawnNames
          /\ request_group.number_of_requests = 0 =>
                /\ DOMAIN status_out = {}
                /\ clients = <<>>
                /\ pc # "panic_div"
    /\ (pc = "done" /\ stdout.format = "stat") =>
          /\ \A r \in 1..Len(stdout.body) : stdout.body[r].name \in DrawnNames
          /\ request_group.number_of_requests = 0 => stdout.body = <<>>

C20_Witness ==
    /\ pc = "done"
    /\ request_group.number_of_requests = 0
    /\ Len(requests) > 0
    /\ ConfiguredNames = {"A", "B"}
    /\ chain = <<>>
    /\ stdout = [format |-> "stat", body |-> <<>>]

====
